---- MODULE Spec2Model ----
(***************************************************************************)
(* A model of the RSSucks user interface layer: the three windows of       *)
(* src/view.rs (InfoWindow, NewFeedWindow, NewFolderWindow), the feed view *)
(* FeedFlowView of src/view.rs and the article Preview widget of           *)
(* src/widgets/article/preview.rs.                                         *)
(*                                                                         *)
(* The interface is immediate mode: one step of the model is one frame,    *)
(* i.e. one call of show (or ui) with the input egui hands it in that      *)
(* frame.  What a frame draws and which client operations it calls are     *)
(* recorded in the frame variables, so that properties of a frame are      *)
(* state predicates.                                                       *)
(*                                                                         *)
(* Texts are sequences of one-character strings, so that parsing and       *)
(* formatting are computed and not assumed.                                *)
(***************************************************************************)
EXTENDS Integers, Sequences, FiniteSets, TLC

VARIABLES
    which,              \* the window the application holds
    info_window,        \* InfoWindow { is_open, title, message }
    new_feed_window,    \* NewFeedWindow { is_open, folder_id, feed_url }
    new_folder_window,  \* NewFolderWindow { is_open, folder_name }
    ctor_folder_id,     \* the folder_id NewFeedWindow::new was given
    client,             \* RssClient: what the windows have asked of it
    win_frame,          \* what the last window frame drew and called
    feed_view,          \* FeedFlowView { id, page, per_page }
    feed,               \* the client's feed: url, model, syncing flag
    sync_calls,         \* number of try_start_sync_feed calls so far
    view_frame,         \* what the last FeedFlowView frame drew and called
    preview,            \* Preview { elements, fulltext, max_images_num }
    preview_frame       \* what the last Preview frame drew

window_vars == <<which, info_window, new_feed_window, new_folder_window,
                 ctor_folder_id, client, win_frame>>
view_vars == <<feed_view, feed, sync_calls, view_frame>>
preview_vars == <<preview, preview_frame>>
vars == <<window_vars, view_vars, preview_vars>>

----------------------------------------------------------------------------
(* Bounds *)

\* the longest text a text field holds
MaxLen == 3
\* the number of create_feed_with_folder / create_folder calls followed
MaxCalls == 2
\* the longest list of entries a feed repeats from the entry pool
MaxEntries == 6
\* the number of try_start_sync_feed calls followed
MaxSyncCalls == 3
\* the longest list of elements of an article
MaxElems == 4

----------------------------------------------------------------------------
(* Texts *)

Alphabet == {"a", "A", ":", " "}

Min(S) == CHOOSE x \in S : \A y \in S : x <= y
Max(S) == CHOOSE x \in S : \A y \in S : x >= y

\* What one frame of typing can make of a text: nothing, one character
\* inserted anywhere, one character deleted anywhere.
TextEdits(t) ==
    {t}
    \cup {SubSeq(t, 1, i) \o <<c>> \o SubSeq(t, i + 1, Len(t)) :
             i \in IF Len(t) < MaxLen THEN 0..Len(t) ELSE {}, c \in Alphabet}
    \cup {SubSeq(t, 1, i - 1) \o SubSeq(t, i + 1, Len(t)) : i \in 1..Len(t)}

----------------------------------------------------------------------------
(* url::Url::parse, on texts over Alphabet.  Leading and trailing spaces   *)
(* are dropped.  A scheme must come before the first colon: a letter, then *)
(* letters, digits, +, - or .  Without one the text is a relative          *)
(* reference, and parsing it without a base fails.  The scheme is          *)
(* lower-cased.  No scheme over this alphabet is special and no path       *)
(* starts with a slash, so the rest is an opaque path, kept as it is.      *)

IsAlpha(c) == c \in {"a", "A"}
IsSchemeChar(c) == IsAlpha(c) \/ c \in {"0", "1", "+", "-", "."}
Lower(c) == IF c = "A" THEN "a" ELSE c

Trim(s) ==
    LET keep == {i \in 1..Len(s) : s[i] # " "}
    IN  IF keep = {} THEN <<>> ELSE SubSeq(s, Min(keep), Max(keep))

NoUrl == [scheme |-> <<>>, path |-> <<>>]

UrlParse(text) ==
    LET s == Trim(text)
        colons == {i \in 1..Len(s) : s[i] = ":"}
        c == Min(colons)
    IN  IF /\ colons # {}
           /\ c > 1
           /\ IsAlpha(s[1])
           /\ \A i \in 1..(c - 1) : IsSchemeChar(s[i])
        THEN [ok |-> TRUE,
              url |-> [scheme |-> [i \in 1..(c - 1) |-> Lower(s[i])],
                       path |-> SubSeq(s, c + 1, Len(s))]]
        ELSE [ok |-> FALSE, url |-> NoUrl]

----------------------------------------------------------------------------
(* The windows *)

FolderIds == {"f1", "f2"}
OptionFolderId == {"None"} \cup FolderIds
Titles == {"info", "error"}
Messages == {"m1", "m2"}
WindowKinds == {"InfoWindow", "NewFeedWindow", "NewFolderWindow"}

InfoWindow_new(title, message) ==
    [is_open |-> TRUE, title |-> title, message |-> message]

NewFeedWindow_new(folder_id) ==
    [is_open |-> TRUE, folder_id |-> folder_id, feed_url |-> <<>>]

NewFolderWindow_new ==
    [is_open |-> TRUE, folder_name |-> <<>>]

NoFrame ==
    [drawn |-> FALSE, open_before |-> TRUE, widgets |-> {}, clicked |-> {},
     feed_calls |-> <<>>, folder_calls |-> <<>>]

\* InfoWindow::show with the open flag toggled by the title bar button.
InfoWindow_frame_toggles(self, clicks) ==
    [self |-> [self EXCEPT !.is_open = (@ /\ "close" \notin clicks)
                                       \/ (~@ /\ "close" \in clicks)],
     widgets |-> {"close"} \cup (IF self.is_open THEN {"message"} ELSE {}),
     feed_calls |-> <<>>,
     folder_calls |-> <<>>]

\* InfoWindow::show.  The window is given to egui with open(&mut is_open):
\* egui draws nothing when is_open is false, and sets it to false when the
\* close button of the title bar is clicked.
InfoWindow_frame(self, clicks) ==
    [self |-> [self EXCEPT !.is_open = @ /\ "close" \notin clicks],
     widgets |-> IF self.is_open THEN {"close", "message"} ELSE {},
     feed_calls |-> <<>>,
     folder_calls |-> <<>>]

\* NewFeedWindow::show with the confirm button drawn whatever the text is.
NewFeedWindow_frame_unchecked(self, text, clicks) ==
    LET parsed == UrlParse(text)
        confirm == "confirm" \in clicks
        cancel == "cancel" \in clicks
    IN  [self |-> [self EXCEPT !.feed_url = text,
                               !.is_open = IF confirm \/ cancel THEN FALSE ELSE @],
         widgets |-> {"text_edit", "cancel", "confirm"},
         feed_calls |-> IF confirm
                        THEN <<[url |-> parsed.url, folder_id |-> self.folder_id]>>
                        ELSE <<>>,
         folder_calls |-> <<>>]

\* NewFeedWindow::show creating the feed outside any folder.
NewFeedWindow_frame_orphan(self, text, clicks) ==
    LET parsed == UrlParse(text)
        confirm == parsed.ok /\ "confirm" \in clicks
        cancel == "cancel" \in clicks
    IN  [self |-> [self EXCEPT !.feed_url = text,
                               !.is_open = IF confirm \/ cancel THEN FALSE ELSE @],
         widgets |-> {"text_edit", "cancel"}
                     \cup (IF parsed.ok THEN {"confirm"} ELSE {"error"}),
         feed_calls |-> IF confirm
                        THEN <<[url |-> parsed.url, folder_id |-> "None"]>>
                        ELSE <<>>,
         folder_calls |-> <<>>]

\* NewFeedWindow::show leaving the window open after the feed is created.
NewFeedWindow_frame_stays_open(self, text, clicks) ==
    LET parsed == UrlParse(text)
        confirm == parsed.ok /\ "confirm" \in clicks
        cancel == "cancel" \in clicks
    IN  [self |-> [self EXCEPT !.feed_url = text,
                               !.is_open = IF cancel THEN FALSE ELSE @],
         widgets |-> {"text_edit", "cancel"}
                     \cup (IF parsed.ok THEN {"confirm"} ELSE {"error"}),
         feed_calls |-> IF confirm
                        THEN <<[url |-> parsed.url, folder_id |-> self.folder_id]>>
                        ELSE <<>>,
         folder_calls |-> <<>>]

\* NewFeedWindow::show on the text the text field holds after this frame's
\* editing: the confirm button exists only when the text parses.
NewFeedWindow_frame(self, text, clicks) ==
    LET parsed == UrlParse(text)
        confirm == parsed.ok /\ "confirm" \in clicks
        cancel == "cancel" \in clicks
    IN  [self |-> [self EXCEPT !.feed_url = text,
                               !.is_open = IF confirm \/ cancel THEN FALSE ELSE @],
         widgets |-> {"text_edit", "cancel"}
                     \cup (IF parsed.ok THEN {"confirm"} ELSE {"error"}),
         feed_calls |-> IF confirm
                        THEN <<[url |-> parsed.url, folder_id |-> self.folder_id]>>
                        ELSE <<>>,
         folder_calls |-> <<>>]

\* NewFolderWindow::show with the text field cleared on cancel.
NewFolderWindow_frame_clears(self, text, clicks) ==
    LET confirm == "confirm" \in clicks
        cancel == "cancel" \in clicks
    IN  [self |-> [self EXCEPT !.folder_name = IF cancel THEN <<>> ELSE text,
                               !.is_open = IF confirm \/ cancel THEN FALSE ELSE @],
         widgets |-> {"text_edit", "confirm", "cancel"},
         feed_calls |-> <<>>,
         folder_calls |-> IF confirm THEN <<text>> ELSE <<>>]

\* NewFolderWindow::show refusing an empty folder name.
NewFolderWindow_frame_validates(self, text, clicks) ==
    LET confirm == text # <<>> /\ "confirm" \in clicks
        cancel == "cancel" \in clicks
    IN  [self |-> [self EXCEPT !.folder_name = text,
                               !.is_open = IF confirm \/ cancel THEN FALSE ELSE @],
         widgets |-> {"text_edit", "confirm", "cancel"},
         feed_calls |-> <<>>,
         folder_calls |-> IF confirm THEN <<text>> ELSE <<>>]

\* NewFolderWindow::show: no check of the name, the confirm button is always
\* drawn.
NewFolderWindow_frame(self, text, clicks) ==
    LET confirm == "confirm" \in clicks
        cancel == "cancel" \in clicks
    IN  [self |-> [self EXCEPT !.folder_name = text,
                               !.is_open = IF confirm \/ cancel THEN FALSE ELSE @],
         widgets |-> {"text_edit", "confirm", "cancel"},
         feed_calls |-> <<>>,
         folder_calls |-> IF confirm THEN <<text>> ELSE <<>>]

\* The client side of a frame: the calls arrive at the client.
ClientAfter(r, open_before) ==
    [feeds |-> client.feeds + Len(r.feed_calls),
     feeds_while_open |-> client.feeds_while_open
                          + (IF open_before THEN Len(r.feed_calls) ELSE 0),
     folders |-> client.folders + Len(r.folder_calls)]

FrameOf(r, open_before, clicks) ==
    [drawn |-> TRUE, open_before |-> open_before, widgets |-> r.widgets,
     clicked |-> clicks, feed_calls |-> r.feed_calls,
     folder_calls |-> r.folder_calls]

\* A frame is one run of the closure show hands to egui::Window::show, with
\* the frame's input.  A button can be clicked only if the frame draws it.
\* The text field applies the frame's key events only while it has the focus,
\* and it has given the focus up before it reads them in a frame in which
\* another widget is clicked or the focus moves on: a frame edits the text or
\* clicks buttons, never both.  NewFeedWindow and NewFolderWindow do not hand
\* is_open to egui and do not read it: show draws them open or closed.
InfoWindow_show ==
    /\ which = "InfoWindow"
    /\ \E clicks \in SUBSET {"close"} :
         LET r == InfoWindow_frame(info_window, clicks)
         IN  /\ clicks \subseteq r.widgets
             /\ info_window' = r.self
             /\ win_frame' = FrameOf(r, info_window.is_open, clicks)
    /\ UNCHANGED <<which, new_feed_window, new_folder_window, ctor_folder_id,
                   client, view_vars, preview_vars>>

NewFeedWindow_show ==
    /\ which = "NewFeedWindow"
    /\ \E text \in TextEdits(new_feed_window.feed_url),
          clicks \in SUBSET {"confirm", "cancel"} :
         LET r == NewFeedWindow_frame(new_feed_window, text, clicks)
         IN  /\ clicks # {} => text = new_feed_window.feed_url
             /\ clicks \subseteq r.widgets
             /\ client.feeds + Len(r.feed_calls) <= MaxCalls
             /\ new_feed_window' = r.self
             /\ client' = ClientAfter(r, new_feed_window.is_open)
             /\ win_frame' = FrameOf(r, new_feed_window.is_open, clicks)
    /\ UNCHANGED <<which, info_window, new_folder_window, ctor_folder_id,
                   view_vars, preview_vars>>

NewFolderWindow_show ==
    /\ which = "NewFolderWindow"
    /\ \E text \in TextEdits(new_folder_window.folder_name),
          clicks \in SUBSET {"confirm", "cancel"} :
         LET r == NewFolderWindow_frame(new_folder_window, text, clicks)
         IN  /\ clicks # {} => text = new_folder_window.folder_name
             /\ clicks \subseteq r.widgets
             /\ client.folders + Len(r.folder_calls) <= MaxCalls
             /\ new_folder_window' = r.self
             /\ client' = ClientAfter(r, new_folder_window.is_open)
             /\ win_frame' = FrameOf(r, new_folder_window.is_open, clicks)
    /\ UNCHANGED <<which, info_window, new_feed_window, ctor_folder_id,
                   view_vars, preview_vars>>

----------------------------------------------------------------------------
(* The feed view.  An Option is a sequence of at most one element, as the  *)
(* code itself reads it (summary.iter().next()).  A displayed string is a   *)
(* sequence of pieces, so that formatting a time is computed.               *)

Lit(s) == <<s>>

Digit(n) ==
    CASE n = 0 -> "0" [] n = 1 -> "1" [] n = 2 -> "2" [] n = 3 -> "3"
      [] n = 4 -> "4" [] n = 5 -> "5" [] n = 6 -> "6" [] n = 7 -> "7"
      [] n = 8 -> "8" [] n = 9 -> "9"

\* DateTime::to_string: a time is the day of a fixed month at midnight.
DateTimeToString(dt) ==
    <<"2023-11-", Digit(dt \div 10), Digit(dt % 10), " 00:00:00 UTC">>

DateTimes == {5, 27}

Some(S) == {<<x>> : x \in S}
Option(S) == {<<>>} \cup Some(S)
TextOf(S) == {[content |-> Lit(x)] : x \in S}
Link(h) == [href |-> Lit(h)]
Person(n) == [name |-> Lit(n)]

LinkLists ==
    {<<>>, <<Link("l1")>>, <<Link("l1"), Link("l2")>>, <<Link("l2"), Link("l1")>>}
AuthorLists ==
    {<<>>, <<Person("a1")>>, <<Person("a2"), Person("a1")>>}

AllEntries ==
    [summary : Option(TextOf({"s"})), updated : Option(DateTimes),
     links : LinkLists, title : Option(TextOf({"t"})), authors : AuthorLists]

\* three entries to build long feeds from: nothing present, everything
\* present once, several links and authors
EntryPool ==
    {[summary |-> <<>>, updated |-> <<>>, links |-> <<>>, title |-> <<>>,
      authors |-> <<>>],
     [summary |-> <<[content |-> Lit("s")]>>, updated |-> <<5>>,
      links |-> <<Link("l1")>>, title |-> <<[content |-> Lit("t")]>>,
      authors |-> <<Person("a1")>>],
     [summary |-> <<[content |-> Lit("s")]>>, updated |-> <<27>>,
      links |-> <<Link("l2"), Link("l1")>>, title |-> <<>>,
      authors |-> <<Person("a2"), Person("a1")>>]}

EntryLists ==
    {<<e>> : e \in AllEntries} \cup UNION {[1..n -> EntryPool] : n \in 0..MaxEntries}

\* every heading present or missing over an empty feed, every list of entries
\* under full headings
FeedModels ==
    [title : Option(TextOf({"T"})), updated : Option({5}),
     description : Option(TextOf({"D"})), entries : {<<>>}]
    \cup [title : Some(TextOf({"T"})), updated : Some({5}),
          description : Some(TextOf({"D"})), entries : EntryLists]

InitialPage == 1
PerPage == 5

FeedFlowView_new(id) == [id |-> id, page |-> InitialPage, per_page |-> PerPage]

\* Iterator::skip and Iterator::take
Skip(s, n) == SubSeq(s, n + 1, Len(s))
Take(s, n) == SubSeq(s, 1, IF n < Len(s) THEN n ELSE Len(s))

\* the entries of the page shown, one page too far
FeedFlowView_page_next(self, entries) ==
    Take(Skip(entries, self.page * self.per_page), self.per_page)

\* the entries of the page shown
FeedFlowView_page(self, entries) ==
    Take(Skip(entries, (self.page - 1) * self.per_page), self.per_page)

\* the article of an entry, with the link taken from the end of the list
ArticleOf_last_link(entry, channel) ==
    [channel |-> channel,
     author |-> IF entry.authors = <<>> THEN <<>> ELSE <<entry.authors[1].name>>,
     title |-> IF entry.title = <<>> THEN Lit("unnamed")
               ELSE entry.title[1].content,
     link |-> IF entry.links = <<>> THEN Lit("no link")
              ELSE entry.links[Len(entry.links)].href,
     time |-> IF entry.updated = <<>> THEN Lit("no time")
              ELSE DateTimeToString(entry.updated[1]),
     content |-> IF entry.summary = <<>> THEN Lit("no content")
                 ELSE entry.summary[1].content]

\* renderer::ArticleComponent::new with what show reads from an entry
ArticleOf(entry, channel) ==
    [channel |-> channel,
     author |-> IF entry.authors = <<>> THEN <<>> ELSE <<entry.authors[1].name>>,
     title |-> IF entry.title = <<>> THEN Lit("unnamed")
               ELSE entry.title[1].content,
     link |-> IF entry.links = <<>> THEN Lit("no link")
              ELSE entry.links[1].href,
     time |-> IF entry.updated = <<>> THEN Lit("no time")
              ELSE DateTimeToString(entry.updated[1]),
     content |-> IF entry.summary = <<>> THEN Lit("no content")
                 ELSE entry.summary[1].content]

Headings(model) ==
    (IF model.title = <<>> THEN <<>> ELSE <<model.title[1].content>>)
    \o (IF model.updated = <<>> THEN <<>>
        ELSE <<Lit("updated") \o DateTimeToString(model.updated[1])>>)
    \o (IF model.description = <<>> THEN <<>>
        ELSE <<model.description[1].content>>)

\* FeedFlowView::show that does not start a sync while one is running
FeedFlowView_frame_guarded(self, fd, sync_clicked) ==
    IF fd.model # <<>>
    THEN LET page == FeedFlowView_page(self, fd.model[1].entries)
         IN  [spinner |-> fd.syncing,
              headings |-> Headings(fd.model[1]),
              articles |-> [i \in 1..Len(page) |-> ArticleOf(page[i], fd.url)],
              sync_button |-> FALSE,
              started |-> <<>>]
    ELSE [spinner |-> fd.syncing,
          headings |-> <<>>,
          articles |-> <<>>,
          sync_button |-> TRUE,
          started |-> IF sync_clicked /\ ~fd.syncing THEN <<self.id>> ELSE <<>>]

\* FeedFlowView::show: what it draws and the try_start_sync_feed calls it
\* makes, for the feed get_feed returns
FeedFlowView_frame(self, fd, sync_clicked) ==
    IF fd.model # <<>>
    THEN LET page == FeedFlowView_page(self, fd.model[1].entries)
         IN  [spinner |-> fd.syncing,
              headings |-> Headings(fd.model[1]),
              articles |-> [i \in 1..Len(page) |-> ArticleOf(page[i], fd.url)],
              sync_button |-> FALSE,
              started |-> <<>>]
    ELSE [spinner |-> fd.syncing,
          headings |-> <<>>,
          articles |-> <<>>,
          sync_button |-> TRUE,
          started |-> IF sync_clicked THEN <<self.id>> ELSE <<>>]

\* RssClient::try_start_sync_feed: the feed is syncing from now on
RssClient_try_start_sync_feed(fd) == [fd EXCEPT !.syncing = TRUE]

NoViewFrame ==
    [drawn |-> FALSE, model |-> <<>>, was_syncing |-> FALSE,
     sync_clicked |-> FALSE, spinner |-> FALSE, headings |-> <<>>,
     articles |-> <<>>, sync_button |-> FALSE, started |-> <<>>]

\* One frame of the feed view.  The sync button can be clicked only if the
\* frame draws it; try_start_sync_feed makes the client report the feed as
\* syncing.
FeedFlowView_show ==
    /\ \E sync_clicked \in BOOLEAN :
         LET r == FeedFlowView_frame(feed_view, feed, sync_clicked)
         IN  /\ sync_clicked => r.sync_button
             /\ sync_calls + Len(r.started) <= MaxSyncCalls
             /\ view_frame' =
                    [drawn |-> TRUE, model |-> feed.model,
                     was_syncing |-> feed.syncing, sync_clicked |-> sync_clicked,
                     spinner |-> r.spinner, headings |-> r.headings,
                     articles |-> r.articles, sync_button |-> r.sync_button,
                     started |-> r.started]
             /\ sync_calls' = sync_calls + Len(r.started)
             /\ feed' = IF r.started # <<>>
                        THEN RssClient_try_start_sync_feed(feed) ELSE feed
    /\ UNCHANGED <<feed_view, window_vars, preview_vars>>

\* The client finishes a sync between two frames: the feed gets its model.
RssClient_sync_done ==
    /\ feed.syncing
    /\ \E m \in FeedModels : feed' = [feed EXCEPT !.model = <<m>>, !.syncing = FALSE]
    /\ UNCHANGED <<feed_view, sync_calls, view_frame, window_vars, preview_vars>>

ViewIdle ==
    /\ feed_view = FeedFlowView_new("feed")
    /\ feed = [url |-> Lit("http://feed/"), model |-> <<>>, syncing |-> FALSE]
    /\ sync_calls = 0
    /\ view_frame = NoViewFrame

----------------------------------------------------------------------------
(* The article preview *)

ElementTypes == {"Image", "Paragraph"}
ImageSources == {"img1", "img2"}
Elements == [typ : ElementTypes, image_src : Option(ImageSources)]
ElementLists == UNION {[1..n -> Elements] : n \in 0..MaxElems}

MaxImagesNum == 3

Preview_from(builder) ==
    [elements |-> builder.elements, fulltext |-> builder.fulltext,
     max_images_num |-> MaxImagesNum]

\* Iterator::filter_map over the elements: the sources of the images
RECURSIVE ImageSourcesOf(_)
ImageSourcesOf(es) ==
    IF es = <<>> THEN <<>>
    ELSE (IF es[1].typ = "Image" /\ es[1].image_src # <<>>
          THEN <<es[1].image_src[1]>> ELSE <<>>)
         \o ImageSourcesOf(Tail(es))

\* the images of the strip, the limit applied to the elements
Preview_images_limit_first(self) ==
    IF self.elements = <<>> THEN <<>>
    ELSE ImageSourcesOf(Take(self.elements[1], self.max_images_num))

\* the images of the strip
Preview_images(self) ==
    IF self.elements = <<>> THEN <<>>
    ELSE Take(ImageSourcesOf(self.elements[1]), self.max_images_num)

\* Preview::ui: the text, and the scroll area with the images if there is one
Preview_frame(self) ==
    [drawn |-> TRUE,
     text |-> IF self.fulltext = <<>> THEN "No content..." ELSE self.fulltext[1],
     scroll_area |-> Preview_images(self) # <<>>,
     images |-> Preview_images(self)]

NoPreviewFrame ==
    [drawn |-> FALSE, text |-> "", scroll_area |-> FALSE, images |-> <<>>]

Preview_ui ==
    /\ preview_frame' = Preview_frame(preview)
    /\ UNCHANGED <<preview, window_vars, view_vars>>

PreviewIdle ==
    /\ preview = Preview_from([elements |-> <<>>, fulltext |-> <<>>])
    /\ preview_frame = NoPreviewFrame

WindowsIdle ==
    /\ which = "InfoWindow"
    /\ info_window = InfoWindow_new("info", "m1")
    /\ ctor_folder_id = "None"
    /\ new_feed_window = NewFeedWindow_new(ctor_folder_id)
    /\ new_folder_window = NewFolderWindow_new
    /\ client = [feeds |-> 0, feeds_while_open |-> 0, folders |-> 0]
    /\ win_frame = NoFrame

InitFeedFlow == ViewIdle /\ WindowsIdle /\ PreviewIdle

NextFeedFlow ==
    \/ FeedFlowView_show
    \/ RssClient_sync_done

SpecFeedFlow == InitFeedFlow /\ [][NextFeedFlow]_vars

InitPreview ==
    /\ \E es \in Option(ElementLists), ft \in Option({"text"}) :
         preview = Preview_from([elements |-> es, fulltext |-> ft])
    /\ preview_frame = NoPreviewFrame
    /\ WindowsIdle
    /\ ViewIdle

NextPreview == Preview_ui

SpecPreview == InitPreview /\ [][NextPreview]_vars

----------------------------------------------------------------------------
(* The windows, one at a time *)

\* The state after construction: the application holds one window, made by
\* its constructor.
InitWindows ==
    /\ which \in WindowKinds
    /\ \E t \in Titles, m \in Messages : info_window = InfoWindow_new(t, m)
    /\ ctor_folder_id \in OptionFolderId
    /\ new_feed_window = NewFeedWindow_new(ctor_folder_id)
    /\ new_folder_window = NewFolderWindow_new
    /\ client = [feeds |-> 0, feeds_while_open |-> 0, folders |-> 0]
    /\ win_frame = NoFrame
    /\ ViewIdle
    /\ PreviewIdle

NextWindows ==
    \/ InfoWindow_show
    \/ NewFeedWindow_show
    \/ NewFolderWindow_show

SpecWindows == InitWindows /\ [][NextWindows]_vars

----------------------------------------------------------------------------
(* Claims about the windows, under SpecWindows *)

FeedFrame == which = "NewFeedWindow" /\ win_frame.drawn
FolderFrame == which = "NewFolderWindow" /\ win_frame.drawn

\* C1: in every frame of NewFeedWindow.show, a feed_url text that does not
\* parse gives the inline error text and no confirm button, and no
\* create_feed_with_folder call; every create_feed_with_folder call of a
\* frame carries the URL parsed from the text the field holds in that frame.
C1_RejectsMalformed ==
    FeedFrame =>
        LET parsed == UrlParse(new_feed_window.feed_url)
        IN  /\ ~parsed.ok => /\ "error" \in win_frame.widgets
                             /\ "confirm" \notin win_frame.widgets
                             /\ win_frame.feed_calls = <<>>
            /\ parsed.ok => "error" \notin win_frame.widgets
            /\ \A i \in 1..Len(win_frame.feed_calls) :
                   parsed.ok /\ win_frame.feed_calls[i].url = parsed.url

\* a frame on a text that is not empty and does not parse
C1_Witness ==
    /\ FeedFrame
    /\ new_feed_window.feed_url # <<>>
    /\ ~UrlParse(new_feed_window.feed_url).ok
    /\ "error" \in win_frame.widgets

\* C4: every window is open right after construction; is_open never goes
\* from false to true; NewFeedWindow and NewFolderWindow are closed only by a
\* frame in which the confirm or the cancel button is clicked.
C4_OpenState ==
    /\ (info_window.is_open /\ new_feed_window.is_open
        /\ new_folder_window.is_open)
    /\ [][/\ ~info_window.is_open => ~info_window'.is_open
          /\ ~new_feed_window.is_open => ~new_feed_window'.is_open
          /\ ~new_folder_window.is_open => ~new_folder_window'.is_open
          /\ (\/ new_feed_window.is_open /\ ~new_feed_window'.is_open
              \/ new_folder_window.is_open /\ ~new_folder_window'.is_open)
             => win_frame'.clicked \cap {"confirm", "cancel"} # {}]_vars

\* a closed NewFeedWindow shown once more, and still closed
C4_Witness ==
    /\ FeedFrame
    /\ ~win_frame.open_before
    /\ ~new_feed_window.is_open

\* C5: a confirm click in a NewFeedWindow frame whose text parses calls
\* create_feed_with_folder exactly once, with the parsed URL and the folder_id
\* the window was constructed with, and the window is closed afterwards.
C5_CreateWithFolder ==
    (FeedFrame /\ "confirm" \in win_frame.clicked) =>
        /\ win_frame.feed_calls =
               <<[url |-> UrlParse(new_feed_window.feed_url).url,
                  folder_id |-> ctor_folder_id]>>
        /\ new_feed_window.folder_id = ctor_folder_id
        /\ ~new_feed_window.is_open

\* a feed created in a folder from a text that differs from its URL
C5_Witness ==
    /\ FeedFrame
    /\ "confirm" \in win_frame.clicked
    /\ ctor_folder_id \in FolderIds
    /\ Len(win_frame.feed_calls) = 1
    /\ win_frame.feed_calls[1].url.scheme = <<"a">>
    /\ new_feed_window.feed_url[1] # "a"

\* C8 as stated: over any sequence of show calls on one NewFeedWindow,
\* create_feed_with_folder is called at most once.
C8_AtMostOnce == client.feeds <= 1

\* C8 amended: a frame calls create_feed_with_folder at most once, and among
\* the frames shown while the window is open at most one calls it.
C8_AtMostOnceWhileOpen ==
    /\ client.feeds_while_open <= 1
    /\ Len(win_frame.feed_calls) <= 1

\* a second feed created by a frame of the closed window
C8_Witness ==
    /\ FeedFrame
    /\ client.feeds = 2
    /\ client.feeds_while_open = 1
    /\ ~win_frame.open_before
    /\ Len(win_frame.feed_calls) = 1

\* C9: a frame of NewFeedWindow.show or NewFolderWindow.show in which cancel
\* is clicked and confirm is not closes the window, calls neither
\* create_feed_with_folder nor create_folder, and leaves the text and the
\* folder_id as they were.
C9_CancelOnly ==
    [][(/\ which \in {"NewFeedWindow", "NewFolderWindow"}
        /\ "cancel" \in win_frame'.clicked
        /\ "confirm" \notin win_frame'.clicked)
       => /\ which = "NewFeedWindow" => ~new_feed_window'.is_open
          /\ which = "NewFolderWindow" => ~new_folder_window'.is_open
          /\ win_frame'.feed_calls = <<>>
          /\ win_frame'.folder_calls = <<>>
          /\ client' = client
          /\ new_feed_window'.feed_url = new_feed_window.feed_url
          /\ new_feed_window'.folder_id = new_feed_window.folder_id
          /\ new_folder_window'.folder_name = new_folder_window.folder_name]_vars

\* a NewFolderWindow cancelled with a name typed in
C9_Witness ==
    /\ FolderFrame
    /\ win_frame.clicked = {"cancel"}
    /\ new_folder_window.folder_name # <<>>
    /\ ~new_folder_window.is_open
    /\ client.folders = 0

\* C10: every frame of NewFolderWindow.show draws the confirm button, and a
\* frame in which it is clicked calls create_folder exactly once with the
\* folder_name text, whatever it is, and closes the window.
C10_NoValidation ==
    FolderFrame =>
        /\ "confirm" \in win_frame.widgets
        /\ "error" \notin win_frame.widgets
        /\ "confirm" \in win_frame.clicked =>
               /\ win_frame.folder_calls = <<new_folder_window.folder_name>>
               /\ ~new_folder_window.is_open
        /\ "confirm" \notin win_frame.clicked => win_frame.folder_calls = <<>>

\* a folder created with the empty name
C10_Witness ==
    /\ FolderFrame
    /\ "confirm" \in win_frame.clicked
    /\ win_frame.folder_calls = << <<>> >>

----------------------------------------------------------------------------
(* Claims about the feed view, under SpecFeedFlow *)

\* the entry behind the i-th article of the last frame
EntryShown(i) ==
    view_frame.model[1].entries[(feed_view.page - 1) * feed_view.per_page + i]

\* C2: for every entry FeedFlowView.show displays, a missing summary, updated
\* time, link or title gives "no content", "no time", "no link" or "unnamed",
\* and a present one is shown from its first value (the first link, the first
\* author, the time formatted).
C2_Placeholders ==
    \A i \in 1..Len(view_frame.articles) :
        LET e == EntryShown(i)
            a == view_frame.articles[i]
        IN  /\ a.content = IF e.summary = <<>> THEN <<"no content">>
                           ELSE e.summary[1].content
            /\ a.time = IF e.updated = <<>> THEN <<"no time">>
                        ELSE DateTimeToString(e.updated[1])
            /\ a.link = IF e.links = <<>> THEN <<"no link">>
                        ELSE Head(e.links).href
            /\ a.title = IF e.title = <<>> THEN <<"unnamed">>
                         ELSE e.title[1].content
            /\ a.author = IF e.authors = <<>> THEN <<>>
                          ELSE <<Head(e.authors).name>>
            /\ e.summary # <<>> => a.content # <<"no content">>
            /\ e.updated # <<>> => a.time # <<"no time">>
            /\ e.links # <<>> => a.link # <<"no link">>
            /\ e.title # <<>> => a.title # <<"unnamed">>

\* an entry with two links and no title next to one with nothing at all
C2_Witness ==
    /\ view_frame.drawn
    /\ Len(view_frame.articles) >= 2
    /\ \E i, j \in 1..Len(view_frame.articles) :
         /\ Len(EntryShown(i).links) = 2
         /\ view_frame.articles[i].link = <<"l2">>
         /\ view_frame.articles[i].title = <<"unnamed">>
         /\ view_frame.articles[i].time = <<"2023-11-", "2", "7", " 00:00:00 UTC">>
         /\ EntryShown(j).summary = <<>>
         /\ view_frame.articles[j].content = <<"no content">>
         /\ view_frame.articles[j].link = <<"no link">>
         /\ view_frame.articles[j].time = <<"no time">>

\* C3: a frame of FeedFlowView.show calls try_start_sync_feed(id) if and only
\* if the feed has no model in that frame and the sync button is clicked in
\* it, whether or not the feed is syncing already; no step taken while the
\* feed has a model starts a sync.
C3_FireAndForget ==
    /\ [](view_frame.drawn =>
            /\ view_frame.started =
                   IF view_frame.model = <<>> /\ view_frame.sync_clicked
                   THEN <<feed_view.id>> ELSE <<>>
            /\ view_frame.sync_button <=> view_frame.model = <<>>)
    /\ [][feed.model # <<>> => sync_calls' = sync_calls]_vars

\* a sync started while the feed was syncing already
C3_Witness ==
    /\ view_frame.drawn
    /\ view_frame.was_syncing
    /\ view_frame.spinner
    /\ view_frame.started = <<feed_view.id>>
    /\ sync_calls >= 2

\* C6: a frame of FeedFlowView.show on a feed with a model displays the
\* entries at positions (page-1)*per_page up to but excluding page*per_page,
\* in feed order; page stays 1 and per_page 5, so these are the first
\* min(5, number of entries) entries.
C6_Pagination ==
    /\ feed_view.page = 1
    /\ feed_view.per_page = 5
    /\ (view_frame.drawn /\ view_frame.model # <<>>) =>
         LET entries == view_frame.model[1].entries
             from == (feed_view.page - 1) * feed_view.per_page
             upto == feed_view.page * feed_view.per_page
             shown == {p \in 0..(Len(entries) - 1) : from <= p /\ p < upto}
         IN  /\ Len(view_frame.articles) = Cardinality(shown)
             /\ Len(view_frame.articles) =
                    (IF Len(entries) < 5 THEN Len(entries) ELSE 5)
             /\ \A i \in 1..Len(view_frame.articles) :
                    view_frame.articles[i] = ArticleOf(entries[from + i], feed.url)

\* a feed of more than five entries, of which the sixth differs from those shown
C6_Witness ==
    /\ view_frame.drawn
    /\ view_frame.model # <<>>
    /\ Len(view_frame.model[1].entries) > 5
    /\ Len(view_frame.articles) = 5
    /\ \A i \in 1..5 :
         view_frame.model[1].entries[6] # view_frame.model[1].entries[i]

----------------------------------------------------------------------------
(* Claims about the preview, under SpecPreview *)

\* the positions of the elements that are images with a source
ImagePositions ==
    IF preview.elements = <<>> THEN {}
    ELSE {i \in 1..Len(preview.elements[1]) :
             /\ preview.elements[1][i].typ = "Image"
             /\ preview.elements[1][i].image_src # <<>>}

\* C7: the images Preview.ui renders are the first three, in element order,
\* of the elements that are images with a source; other elements are skipped
\* and do not count; the scroll area is shown if and only if there is such an
\* image.
C7_ImageStrip ==
    preview_frame.drawn =>
        /\ Len(preview_frame.images) =
               (IF Cardinality(ImagePositions) < 3
                THEN Cardinality(ImagePositions) ELSE 3)
        /\ \A k \in 1..Len(preview_frame.images) :
               \E i \in ImagePositions :
                   /\ Cardinality({j \in ImagePositions : j <= i}) = k
                   /\ preview_frame.images[k] = preview.elements[1][i].image_src[1]
        /\ preview_frame.scroll_area <=> ImagePositions # {}

\* three images rendered, the third after an element that is skipped
C7_Witness ==
    /\ preview_frame.drawn
    /\ preview.elements # <<>>
    /\ Len(preview.elements[1]) = 4
    /\ ImagePositions = {1, 2, 4}
    /\ preview_frame.images = <<"img1", "img2", "img1">>
    /\ preview_frame.scroll_area

====
